---- MODULE Spec2Model ----
(***************************************************************************)
(* Model of the minimal_vst_pan plugin (src/src/lib.rs): the `pan`         *)
(* FloatParam with its smoother, and Pan::process, which reads one         *)
(* smoothed value per frame and scales the channels of that frame.         *)
(*                                                                         *)
(* Numbers are fixed point.  Pan values and gains are integers in units of *)
(* 1/One, samples are integers in units of 1/SampleOne.  Every pan value   *)
(* is an even multiple of 1/One and every input sample a multiple of       *)
(* One*One/SampleOne, so each subtraction, halving and product the code    *)
(* performs is exact in the model (no rounding is modelled; the f32        *)
(* rounding of values off this grid is outside the model).                 *)
(*                                                                         *)
(* The smoother itself (nih_plug's Smoother<f32>) and the range clamp      *)
(* (nih_plug's FloatRange) are code of the nih_plug crate, which is not    *)
(* part of src/; they are modelled from the description in spec.md 4.1 and *)
(* 4.2, configured the way lib.rs:35-43 configures them.                   *)
(***************************************************************************)
EXTENDS Integers, Sequences, FiniteSets

(* ------------------------------ bounds -------------------------------- *)

\* Pan grid: PanSteps grid points between centre and each extreme.
PanSteps == 2
\* Longest buffer (frames per channel) the host hands to process.
MaxFrames == 2
\* How many grid points beyond the range an update requested by the host may lie.
MaxOver == 1
\* Ramp length in samples of the Linear style (only a configured smoother uses it).
RampSteps == 2

(* ----------------------------- fixed point ---------------------------- *)

\* 1.0 as a pan value or a gain.
One == 2 * PanSteps
\* 1.0 as a sample: a sample scaled by two gains is still an integer.
SampleOne == One * One

Abs(x) == IF x < 0 THEN -x ELSE x
Min(a, b) == IF a <= b THEN a ELSE b
Max(a, b) == IF a >= b THEN a ELSE b

(* --------------------------- parameter model -------------------------- *)

\* lib.rs:37  default pan value (centered)
PanDefault == 0
\* lib.rs:39  min: -1.0
PanMin == -One
\* lib.rs:40  max: 1.0
\* (variant: a range declared up to 2.0)
PanMaxWide == 2 * One
PanMax == One

\* lib.rs:35-43: FloatParam::new(...) without .with_smoother(...): no smoothing.
\* (variant: .with_smoother(SmoothingStyle::Linear(..)) added)
PanSmoothingLinear == "Linear"
PanSmoothing == "None"

\* FloatRange clamp of a requested plain value to [min, max].
Clamp(v) == Max(PanMin, Min(PanMax, v))

\* Values a host or UI may request, in range and out of range.
HostValues == {2 * k : k \in -(PanSteps + MaxOver)..(PanSteps + MaxOver)}

(* ------------------------------ smoother ------------------------------ *)

\* Number of next() calls a ramp takes: 1 with no smoothing.
NumSteps(style) == IF style = "None" THEN 1 ELSE RampSteps

\* Quotient rounded toward zero.
DivTrunc(a, n) == IF a >= 0 THEN a \div n ELSE -((-a) \div n)

\* Per-sample increment of a ramp from start to target in n steps.
StepSize(style, start, tgt, n) == IF style = "None" THEN 0 ELSE DivTrunc(tgt - start, n)

\* A smoother: [target, current, steps_left, step_size].
SmootherInit(v) == [target |-> v, current |-> v, steps_left |-> 0, step_size |-> 0]

\* set_target: records the target and starts a ramp from `current`.
\* (variant: the target takes effect at once)
SmootherSetTargetJumps(style, s, v) ==
    [s EXCEPT !.target = v, !.current = v, !.steps_left = 0]
SmootherSetTarget(style, s, v) ==
    [s EXCEPT !.target = v,
              !.steps_left = NumSteps(style),
              !.step_size = StepSize(style, s.current, v, NumSteps(style))]

\* next: <<value returned, smoother afterwards>>.
\* (variant: next() never advances)
SmootherNextStale(style, s) == <<s.current, s>>
SmootherNext(style, s) ==
    IF s.steps_left > 0
    THEN LET new == IF s.steps_left <= 1 THEN s.target ELSE s.current + s.step_size
         IN  <<new, [s EXCEPT !.current = new, !.steps_left = s.steps_left - 1]>>
    ELSE <<s.target, s>>

(* --------------------------- gain law, buffer ------------------------- *)

\* lib.rs:134  let left_gain = (1.0 - pan) / 2.0;
\* (variant: operands of the subtraction swapped)
LeftGainSlip(pan) == (pan - One) \div 2
LeftGain(pan) == (One - pan) \div 2

\* lib.rs:135  let right_gain = (1.0 + pan) / 2.0;
\* (variant: the halving forgotten)
RightGainNoHalf(pan) == One + pan
RightGain(pan) == (One + pan) \div 2

\* lib.rs:142-143  *sample = *sample * gain
Scale(sample, gain) == (sample * gain) \div One

\* lib.rs:56-67  AUDIO_IO_LAYOUTS: stereo and mono main I/O.
LayoutChannels == {2, 1}
\* Any channel count a caller of process may pass in a Buffer.
AnyChannels == LayoutChannels \cup {3}

SampleValues == {SampleOne, -2 * SampleOne}

\* Buffers of c channels (c in chs) by n frames: b[c][f].
Buffers(chs) ==
    UNION {[1..c -> [1..n -> SampleValues]] : c \in chs, n \in 0..MaxFrames}

NChannels(b) == Len(b)
NFrames(b) == Len(b[1])

\* lib.rs:138-140  channel_samples.iter_mut().zip(channel_samples.iter_mut().skip(1)):
\* the i-th channel paired with the (i+1)-th, for every i that has a successor.
\* (variant: .skip(1) forgotten)
PairsNoSkip(n) == [i \in 1..n |-> <<i, i>>]
Pairs(n) == [i \in 1..(n - 1) |-> <<i, i + 1>>]

\* lib.rs:138-144  the inner for loop over the pairs, in order, on frame f.
RECURSIVE ApplyPairs(_, _, _, _, _)
\* (variant: the two gains swapped)
ApplyPairsSwapped(b, f, lg, rg, ps) ==
    IF ps = <<>> THEN b
    ELSE LET p == Head(ps)
             b0 == [b EXCEPT ![p[1]][f] = Scale(@, rg)]
             b1 == [b0 EXCEPT ![p[2]][f] = Scale(@, lg)]
         IN  ApplyPairs(b1, f, lg, rg, Tail(ps))
ApplyPairs(b, f, lg, rg, ps) ==
    IF ps = <<>> THEN b
    ELSE LET p == Head(ps)
             b0 == [b EXCEPT ![p[1]][f] = Scale(@, lg)]
             b1 == [b0 EXCEPT ![p[2]][f] = Scale(@, rg)]
         IN  ApplyPairs(b1, f, lg, rg, Tail(ps))

(* -------------------------------- state ------------------------------- *)

\* A value that may not exist yet is the empty set or a one-element set.
VARIABLES
    value,        \* params.pan: the parameter's plain value
    smoothed,     \* params.pan.smoothed: the smoother
    pc,           \* audio callback: "idle" or "loop" (inside process)
    inBuf,        \* the buffer as the host handed it to process
    buf,          \* the buffer, modified in place
    frame,        \* frames of buf the loop has done
    pan,          \* local `pan` of the latest loop body
    left_gain,    \* local `left_gain` of the latest loop body
    right_gain,   \* local `right_gain` of the latest loop body
    status,       \* what the last process call returned ("none" while there is none)
    pans,         \* history: value next() returned for each frame of this call
    nextCalls,    \* history: next() calls made by this process call
    lastRequest,  \* history: the value last requested by the host
    startValue,   \* history: `current` when the target was last set
    prevReturned, \* history: last value next() returned before the target was last set
    retargeted,   \* history: the target was last set while a ramp was running
    returned,     \* history: the first values next() returned since the target was set
    lastReturned, \* history: the last value next() returned
    sinceSet      \* history: next() calls since the target was set (capped)

vars == <<value, smoothed, pc, inBuf, buf, frame, pan, left_gain, right_gain,
          status, pans, nextCalls, lastRequest, startValue, prevReturned,
          retargeted, returned, lastReturned, sinceSet>>

\* How many returned values the history keeps.
TraceLen == NumSteps(PanSmoothing) + 1

\* lib.rs:22-46  Pan::default, PanParams::default
Init ==
    /\ value = PanDefault
    /\ smoothed = SmootherInit(PanDefault)
    /\ pc = "idle"
    /\ inBuf = <<<<>>>>
    /\ buf = <<<<>>>>
    /\ frame = 0
    /\ pan = {}
    /\ left_gain = {}
    /\ right_gain = {}
    /\ status = "none"
    /\ pans = <<>>
    /\ nextCalls = 0
    /\ lastRequest = {}
    /\ startValue = PanDefault
    /\ prevReturned = {}
    /\ retargeted = FALSE
    /\ returned = <<>>
    /\ lastReturned = {}
    /\ sinceSet = 0

(* ------------------------------- actions ------------------------------ *)

\* The host or the UI sets the parameter to v between two process calls:
\* the value is clamped to the declared range and becomes the smoother's target.
SetTarget(v) ==
    /\ pc = "idle"
    /\ value' = Clamp(v)
    /\ smoothed' = SmootherSetTarget(PanSmoothing, smoothed, Clamp(v))
    /\ lastRequest' = {v}
    /\ startValue' = smoothed.current
    /\ prevReturned' = lastReturned
    /\ retargeted' = (smoothed.steps_left > 0)
    /\ returned' = <<>>
    /\ sinceSet' = 0
    /\ UNCHANGED <<pc, inBuf, buf, frame, pan, left_gain, right_gain, status,
                   pans, nextCalls, lastReturned>>

\* lib.rs:124-130  the host calls process with buffer b.
ProcessBegin(b) ==
    /\ pc = "idle"
    /\ pc' = "loop"
    /\ inBuf' = b
    /\ buf' = b
    /\ frame' = 0
    /\ pans' = <<>>
    /\ nextCalls' = 0
    /\ pan' = {}
    /\ left_gain' = {}
    /\ right_gain' = {}
    /\ status' = "none"
    /\ UNCHANGED <<value, smoothed, lastRequest, startValue, prevReturned,
                   retargeted, returned, lastReturned, sinceSet>>

\* lib.rs:130-145  one iteration of `for mut channel_samples in buffer.iter_samples()`.
\* (variant: the loop body gated on a 2-channel buffer)
ProcessFrameGated ==
    /\ pc = "loop"
    /\ frame < NFrames(buf)
    /\ IF NChannels(buf) = 2
       THEN LET f == frame + 1
                r == SmootherNext(PanSmoothing, smoothed)
                lg == LeftGain(r[1])
                rg == RightGain(r[1])
            IN  /\ smoothed' = r[2]
                /\ pan' = {r[1]}
                /\ left_gain' = {lg}
                /\ right_gain' = {rg}
                /\ buf' = ApplyPairs(buf, f, lg, rg, Pairs(NChannels(buf)))
                /\ frame' = f
                /\ pans' = Append(pans, r[1])
                /\ nextCalls' = nextCalls + 1
                /\ lastReturned' = {r[1]}
                /\ returned' = IF Len(returned) < TraceLen
                               THEN Append(returned, r[1]) ELSE returned
                /\ sinceSet' = Min(sinceSet + 1, TraceLen)
       ELSE /\ frame' = frame + 1
            /\ pans' = Append(pans, smoothed.target)
            /\ UNCHANGED <<smoothed, pan, left_gain, right_gain, buf, nextCalls,
                           lastReturned, returned, sinceSet>>
    /\ UNCHANGED <<value, pc, inBuf, status, lastRequest, startValue,
                   prevReturned, retargeted>>
ProcessFrame ==
    /\ pc = "loop"
    /\ frame < NFrames(buf)
    /\ LET f == frame + 1
           r == SmootherNext(PanSmoothing, smoothed)
           lg == LeftGain(r[1])
           rg == RightGain(r[1])
       IN  /\ smoothed' = r[2]
           /\ pan' = {r[1]}
           /\ left_gain' = {lg}
           /\ right_gain' = {rg}
           /\ buf' = ApplyPairs(buf, f, lg, rg, Pairs(NChannels(buf)))
           /\ frame' = f
           /\ pans' = Append(pans, r[1])
           /\ nextCalls' = nextCalls + 1
           /\ lastReturned' = {r[1]}
           /\ returned' = IF Len(returned) < TraceLen
                          THEN Append(returned, r[1]) ELSE returned
           /\ sinceSet' = Min(sinceSet + 1, TraceLen)
    /\ UNCHANGED <<value, pc, inBuf, status, lastRequest, startValue,
                   prevReturned, retargeted>>

\* lib.rs:147  ProcessStatus::Normal
ProcessReturn ==
    /\ pc = "loop"
    /\ frame = NFrames(buf)
    /\ pc' = "idle"
    /\ status' = "Normal"
    /\ UNCHANGED <<value, smoothed, inBuf, buf, frame, pan, left_gain, right_gain,
                   pans, nextCalls, lastRequest, startValue, prevReturned,
                   retargeted, returned, lastReturned, sinceSet>>

\* The plugin under a host that honours AUDIO_IO_LAYOUTS.
Next ==
    \/ \E v \in HostValues : SetTarget(v)
    \/ \E b \in Buffers(LayoutChannels) : ProcessBegin(b)
    \/ ProcessFrame
    \/ ProcessReturn

Spec == Init /\ [][Next]_vars

\* process called with a Buffer of any channel count.
NextAnyBuffer ==
    \/ \E v \in HostValues : SetTarget(v)
    \/ \E b \in Buffers(AnyChannels) : ProcessBegin(b)
    \/ ProcessFrame
    \/ ProcessReturn

SpecAnyBuffer == Init /\ [][NextAnyBuffer]_vars

(* ------------------------------ properties ---------------------------- *)

\* A process call has returned and no other has begun.
Done == pc = "idle" /\ status = "Normal"

\* The smoother is at rest on value v.
Settled(v) == smoothed.target = v /\ smoothed.current = v /\ smoothed.steps_left = 0

Between(a, x, b) == Min(a, b) <= x /\ x <= Max(a, b)

\* The frames the loop has done so far.
DoneFrames == 1..frame

\* The value a request v must be stored as.
Nearest(v) == IF v < -One THEN -One ELSE IF v > One THEN One ELSE v

(* C1: whenever the loop body has computed its gains from a pan value in     *)
(* [-1, 1], left_gain + right_gain is exactly 1.                            *)
C1_GainSum ==
    \A p \in pan : \A lg \in left_gain : \A rg \in right_gain :
        (-One <= p /\ p <= One) => lg + rg = One

\* A frame has been done with a pan value that is neither centre nor an extreme.
C1_Witness ==
    /\ frame > 0
    /\ \E p \in pan : p \notin {-One, 0, One}
    /\ \E lg \in left_gain : \E rg \in right_gain : lg # rg

(* C2: in a 2-channel buffer every frame the loop has done holds, in        *)
(* channel 0, its input times (1 - p) / 2 and, in channel 1, its input      *)
(* times (1 + p) / 2, p being the value next() returned for that frame;     *)
(* with all inputs 1.0 and p = 0 that is 0.5 and 0.5, with p = -1 it is     *)
(* 1.0 and 0.0.                                                             *)
C2_StereoApplication ==
    NChannels(inBuf) = 2 =>
        \A f \in DoneFrames :
            /\ 2 * One * buf[1][f] = inBuf[1][f] * (One - pans[f])
            /\ 2 * One * buf[2][f] = inBuf[2][f] * (One + pans[f])
            /\ (inBuf[1][f] = SampleOne /\ inBuf[2][f] = SampleOne /\ pans[f] = 0)
                   => (2 * buf[1][f] = SampleOne /\ 2 * buf[2][f] = SampleOne)
            /\ (inBuf[1][f] = SampleOne /\ inBuf[2][f] = SampleOne /\ pans[f] = -One)
                   => (buf[1][f] = SampleOne /\ buf[2][f] = 0)

\* A full-length stereo buffer of 1.0 samples has been processed with the pan
\* settled fully left: channel 0 is 1.0 and channel 1 is 0.0 in every frame.
C2_Witness ==
    /\ Done
    /\ NChannels(inBuf) = 2
    /\ NFrames(inBuf) = MaxFrames
    /\ Settled(-One)
    /\ \A f \in 1..MaxFrames :
           /\ inBuf[1][f] = SampleOne /\ inBuf[2][f] = SampleOne
           /\ pans[f] = -One
           /\ buf[1][f] = SampleOne /\ buf[2][f] = 0

(* C3: in a buffer of more than 2 channels every frame the loop has done    *)
(* leaves the channels of index >= 2 as they were, holds in channel 0 its   *)
(* input times left_gain only and in channel 1 its input times right_gain   *)
(* only.                                                                    *)
C3_ExtraChannelsPassThrough ==
    NChannels(inBuf) > 2 =>
        \A f \in DoneFrames :
            /\ \A c \in 3..NChannels(inBuf) : buf[c][f] = inBuf[c][f]
            /\ 2 * One * buf[1][f] = inBuf[1][f] * (One - pans[f])
            /\ 2 * One * buf[2][f] = inBuf[2][f] * (One + pans[f])

(* C4: a 1-channel buffer is left as the host handed it in, at every point  *)
(* of the call, for every pan value and every number of frames.             *)
C4_MonoUnchanged ==
    NChannels(inBuf) = 1 => buf = inBuf

\* A full-length mono buffer has been processed with the pan off centre.
C4_Witness ==
    /\ Done
    /\ NChannels(inBuf) = 1
    /\ NFrames(inBuf) = MaxFrames
    /\ \A f \in 1..MaxFrames : pans[f] # 0
    /\ buf = inBuf

(* C5: in every frame of every process call both gains exist and lie in     *)
(* [0, 1].                                                                  *)
C5_GainRange ==
    /\ frame > 0 => (left_gain # {} /\ right_gain # {})
    /\ \A p \in pan : (-One <= p /\ p <= One) =>
           /\ \A lg \in left_gain : 0 <= lg /\ lg <= One
           /\ \A rg \in right_gain : 0 <= rg /\ rg <= One

\* A frame has been done at an extreme of the range: one gain 0, the other 1.
C5_Witness ==
    /\ frame > 0
    /\ pan = {One}
    /\ left_gain = {0}
    /\ right_gain = {One}

(* C6: after any sequence of updates, in range or not, the parameter value, *)
(* the stored target and every value next() returned lie in [-1, 1]; an     *)
(* update is never refused: the target is the requested value, or the bound *)
(* nearest to it; and a process call that follows returns Normal.           *)
C6_Clamped ==
    /\ -One <= value /\ value <= One
    /\ -One <= smoothed.target /\ smoothed.target <= One
    /\ \A r \in lastReturned : -One <= r /\ r <= One
    /\ \A i \in 1..Len(returned) : -One <= returned[i] /\ returned[i] <= One
    /\ \A v \in lastRequest : smoothed.target = Nearest(v) /\ value = Nearest(v)
    /\ status \in {"none", "Normal"}

\* An update above the range was accepted as 1.0, and a process call then
\* read 1.0 from the smoother and returned.
C6_Witness ==
    /\ \E v \in lastRequest : v > One
    /\ Done
    /\ frame > 0
    /\ sinceSet > 0
    /\ lastReturned = {One}

C9_NoSmoothingReturnsTarget ==
    /\ \A i \in 1..Len(returned) : returned[i] = smoothed.target
    /\ sinceSet > 0 => lastReturned = {smoothed.target}
    /\ pc = "loop" => \A f \in DoneFrames : pans[f] = smoothed.target
    /\ frame > 0 => pan # {}

\* next() has been called right after a jump of the target.
C9_Witness ==
    /\ sinceSet = 1
    /\ startValue # smoothed.target
    /\ pc = "loop"
    /\ pan = {smoothed.target}

(* C10: a process call on N frames calls next() once per frame, in frame    *)
(* order: after k calls exactly the first k frames are done, whatever the   *)
(* channel count; the call returns Normal after N calls.                    *)
C10_OneStepPerFrame ==
    /\ nextCalls = frame
    /\ Len(pans) = frame
    /\ frame <= NFrames(inBuf)
    /\ \A f \in (frame + 1)..NFrames(inBuf) :
           \A c \in 1..NChannels(inBuf) : buf[c][f] = inBuf[c][f]
    /\ frame > 0 => pan = {pans[frame]}
    /\ pc = "idle" => nextCalls = NFrames(inBuf)
    /\ pc = "loop" => status = "none"

\* A full-length mono buffer has been processed: next() was called once per frame.
C10_Witness ==
    /\ Done
    /\ NChannels(inBuf) = 1
    /\ nextCalls = MaxFrames
    /\ NFrames(inBuf) = MaxFrames

====
